---- MODULE Spec2Model ----
(***************************************************************************)
(* Model of the audio capture engine of summia (src/src/audio/capture.rs). *)
(*                                                                         *)
(* Two capture objects are modelled, as the source has them:               *)
(*   - MacOSAudioCapture: ScreenCaptureKit delivers system audio and       *)
(*     microphone chunks into two mpsc channels; a mixer thread polls both *)
(*     channels, pairs samples by position and writes 16-bit samples.      *)
(*   - CpalAudioCapture: one input stream, one channel, a writer thread.   *)
(*                                                                         *)
(* The channel normalizers are also looked at on their own (NormSpec),     *)
(* together with the one of the BlackHole capture of src/audio/macos.rs.   *)
(*                                                                         *)
(* Sample values are f32 in the source.  The model keeps them exact as     *)
(* integers in units of 1/Unit (Unit = 8 stands for 1.0): every input is a *)
(* multiple of 0.5, so the two halvings of the source stay integral and    *)
(* the f32 arithmetic of the source is exact on them.                      *)
(***************************************************************************)
EXTENDS Integers, Sequences, FiniteSets, TLC

(* ------------------------------ bounds --------------------------------- *)

\* calls of start_record / stop_record the caller makes on one object
MaxCalls == 3
\* chunks the capture callbacks deliver during one run
MaxDeliveries == 1
\* chunks the capture callbacks deliver during a run of one start and one stop
MaxSingleDeliveries == 3
\* samples of a chunk handed to a channel normalizer on its own
MaxNormLen == 3

(* ----------------------------- constants -------------------------------- *)

\* 1.0 in the model's fixed-point representation of f32 samples
Unit == 8
\* the i16 scale factor of `(mixed.clamp(-1.0, 1.0) * 32767.0) as i16`
I16Scale == 32767

\* the chunks a capture callback may deliver (interleaved f32 samples):
\* [1.0, 1.0], [0.0], [0.0, 0.0, 1.0], [0.5]
Chunks ==
    { <<8, 8>>, <<0>>, <<0, 0, 8>>, <<4>> }

\* the chunks delivered while the caller makes arbitrary calls
CallChunks ==
    { <<8, 8>>, <<4>> }

\* the capture objects of the source: MacOSAudioCapture, CpalAudioCapture
Backends == {"mac", "cpal"}

\* config.channels() of the cpal input device
CpalChannels == {1, 2}

\* the sample values of the chunks handed to a normalizer: 0.0, 0.5, 1.0
NormSamples == {0, 4, 8}

\* sample values beyond full scale as well as within it:
\* -3.0, -1.0, -0.5, 0.0, 0.5, 1.0, 3.0
MixSamples == {-24, -8, -4, 0, 4, 8, 24}

\* the places that turn an interleaved chunk into mono samples: the two
\* arms of the mixer thread, the cpal callback, and the writer thread of the
\* BlackHole capture MacosAudioCapture (src/src/audio/macos.rs), which
\* make_audio_capture does not construct
NormSites == {"system", "microphone", "cpal", "blackhole"}

(* ------------------------------ helpers --------------------------------- *)

Min(a, b) == IF a < b THEN a ELSE b
Max(a, b) == IF a > b THEN a ELSE b

\* slice.get(i).copied().unwrap_or(0.0), with i counted from 1
GetOr0(buf, i) == IF i <= Len(buf) THEN buf[i] ELSE 0

\* a drain that removes the newest n samples instead of the oldest
DrainBack(buf, n) == SubSeq(buf, 1, Len(buf) - n)

\* Vec::drain(0..n): what is left of the vector
DrainFront(buf, n) == SubSeq(buf, n + 1, Len(buf))

(* -------------------------- sample arithmetic --------------------------- *)

\* for chunk in data.chunks_exact(2) { mono = (chunk[0] + chunk[1]) * 0.5 }
StereoToMono(data) ==
    [k \in 1..(Len(data) \div 2) |-> (data[2 * k - 1] + data[2 * k]) \div 2]

\* mic_buffer.extend_from_slice(&data): the microphone chunk is taken as is
MicToMono(data) == data

\* buffer.chunks(2).map(|ch| (ch[0] + ch.get(1).unwrap_or(&0.0)) / 2.0):
\* chunks(2) yields a last chunk of one sample when the length is odd
BlackHoleToMono(buffer) ==
    [k \in 1..((Len(buffer) + 1) \div 2) |->
        (buffer[2 * k - 1] + GetOr0(buffer, 2 * k)) \div 2]

\* (a + b) * 0.5
Mix(a, b) == (a + b) \div 2

\* a clamp that lets every value through
NoClamp(x) == x

\* f32::clamp(-1.0, 1.0)
Clamp(x) == IF x < -Unit THEN -Unit ELSE IF x > Unit THEN Unit ELSE x

\* (x * 32767.0) as i16: the cast truncates toward zero
ToI16(x) ==
    IF x >= 0 THEN (x * I16Scale) \div Unit ELSE -(((-x) * I16Scale) \div Unit)

\* the sample the mixer hands to writer.write_sample
MixedSample(sys, mic) == ToI16(Clamp(Mix(sys, mic)))

\* a pairing pass that pairs one sample at a time
MixLenOfOne(sysBuf, micBuf) ==
    IF sysBuf # <<>> /\ micBuf # <<>> THEN 1 ELSE 0

\* let mix_len = sys_buffer.len().min(mic_buffer.len())
MixLen(sysBuf, micBuf) == Min(Len(sysBuf), Len(micBuf))

\* for i in 0..mix_len { write_sample(mixed(sys_buffer[i], mic_buffer[i])) }
PairedSamples(sysBuf, micBuf) ==
    [i \in 1..MixLen(sysBuf, micBuf) |-> MixedSample(sysBuf[i], micBuf[i])]

\* a remainder that stops where the shorter buffer ends
RemainingOfShorter(sysBuf, micBuf) == Min(Len(sysBuf), Len(micBuf))

\* let remaining = sys_buffer.len().max(mic_buffer.len())
Remaining(sysBuf, micBuf) == Max(Len(sysBuf), Len(micBuf))

\* for i in 0..remaining { sys.get(i).unwrap_or(0.0), mic.get(i).unwrap_or(0.0) }
PaddedSamples(sysBuf, micBuf) ==
    [i \in 1..Remaining(sysBuf, micBuf) |->
        MixedSample(GetOr0(sysBuf, i), GetOr0(micBuf, i))]

(* ------------------------------- state ---------------------------------- *)

VARIABLES
    backend,      \* which capture object was constructed
    callerPc,     \* where the caller is: "idle", inside stop_record, "panicked"
    hist,         \* the calls that have returned (or panicked), in order
    scStream,     \* MacOSAudioCapture.sc_stream: 0 = None, else the session
    writerHandle, \* writer_handle: 0 = None, else the session of the thread
    events,       \* the event channel: sessions whose Finished is queued
    sessions,     \* MacOSAudioCapture: one record per start_record that
                  \* created channels
    cpal,         \* CpalAudioCapture: its channel, stream and writer thread
    deliveries,   \* chunks delivered by the capture callbacks so far
    norm          \* a channel normalizer applied on its own: its input chunk,
                  \* the channel count of the source, and its output

vars ==
    <<backend, callerPc, hist, scStream, writerHandle, events, sessions,
      cpal, deliveries, norm>>

\* the state a session is created with (channel(), Vec::new(), running = true)
NewSession(spawned) ==
    [ stream    |-> "running",
      rx        |-> IF spawned THEN "thread" ELSE "dropped",
      pc        |-> IF spawned THEN "sys_recv" ELSE "none",
      sysCh     |-> <<>>,
      micCh     |-> <<>>,
      sysBuf    |-> <<>>,
      micBuf    |-> <<>>,
      running   |-> TRUE,
      sysCount  |-> 0,
      micCount  |-> 0,
      sink      |-> spawned,
      sinkOk    |-> TRUE,
      out       |-> <<>>,
      writeErrs |-> 0,
      finalized |-> 0,
      paired    |-> 0,
      sysSent   |-> <<>>,
      micSent   |-> <<>>,
      sendErrs  |-> 0 ]

\* CpalAudioCapture::new: the channel exists from construction, wav_rx is
\* kept in self until start_record takes it
NewCpal(channels) ==
    [ channels  |-> channels,
      wavRx     |-> "self",
      wavCh     |-> <<>>,
      stream    |-> "none",
      pc        |-> "none",
      sink      |-> FALSE,
      sinkOk    |-> TRUE,
      out       |-> <<>>,
      writeErrs |-> 0,
      dropped   |-> 0,
      sent      |-> <<>>,
      sendErrs  |-> 0 ]

\* no normalizer is looked at on its own
NoNorm == [site |-> "none", n |-> 1, data |-> <<>>, out |-> <<>>, done |-> TRUE]

\* the capture object after construction
InitCapture ==
    /\ backend \in Backends
    /\ callerPc = "idle"
    /\ hist = <<>>
    /\ scStream = 0
    /\ writerHandle = 0
    /\ events = <<>>
    /\ sessions = <<>>
    /\ cpal \in {NewCpal(n) : n \in IF backend = "cpal" THEN CpalChannels ELSE {1}}
    /\ deliveries = 0

Init ==
    /\ InitCapture
    /\ norm = NoNorm

Sess == 1..Len(sessions)

\* dropping the SCStream drops its output handlers and with them sys_tx and
\* mic_tx: stop_record relies on it ("the writer ends when the channel
\* closes"), no Stop message is ever sent on this path
DropStream(ss, s) ==
    IF s = 0 THEN ss ELSE [ss EXCEPT ![s].stream = "dropped"]

StartOk == [op |-> "start", res |-> "Ok"]
StopOk == [op |-> "stop", res |-> "Ok"]

Returned(op, res) == hist' = Append(hist, [op |-> op, res |-> res])

CanCall == callerPc = "idle" /\ Len(hist) < MaxCalls

(* ------------------------ MacOSAudioCapture ----------------------------- *)

\* start_record fails before any channel exists (SCShareableContent::get,
\* no display) or at start_capture: the local stream is dropped on return
MacStartErrEarly ==
    /\ backend = "mac"
    /\ CanCall
    /\ Returned("start", "Err")
    /\ UNCHANGED <<backend, callerPc, scStream, writerHandle, events,
                   sessions, cpal, deliveries, norm>>

\* start_record fails at WavWriter::create: the stream is already started
\* and stored in self.sc_stream, the receivers are dropped on return
MacStartErrWav ==
    /\ backend = "mac"
    /\ CanCall
    /\ sessions' = Append(DropStream(sessions, scStream), NewSession(FALSE))
    /\ scStream' = Len(sessions) + 1
    /\ Returned("start", "Err")
    /\ UNCHANGED <<backend, callerPc, writerHandle, events, cpal, deliveries,
                   norm>>

\* start_record succeeds: stream stored, sink created, mixer thread spawned
MacStartOk ==
    /\ backend = "mac"
    /\ CanCall
    /\ sessions' = Append(DropStream(sessions, scStream), NewSession(TRUE))
    /\ scStream' = Len(sessions) + 1
    /\ writerHandle' = Len(sessions) + 1
    /\ Returned("start", "Ok")
    /\ UNCHANGED <<backend, callerPc, events, cpal, deliveries, norm>>

\* a send that queues the message whether or not a receiver is left
SendAlwaysQueues(sess, field, sent, chunk) ==
    [sess EXCEPT ![field] = Append(@, chunk), ![sent] = Append(@, chunk)]

\* let _ = self.tx.send(msg): Ok while the receiver lives, Err (ignored)
\* once it is gone
Send(sess, field, sent, chunk) ==
    IF sess.rx = "dropped"
    THEN [sess EXCEPT !.sendErrs = @ + 1]
    ELSE [sess EXCEPT ![field] = Append(@, chunk), ![sent] = Append(@, chunk)]

\* did_output_sample_buffer(sample, SCStreamOutputType::Audio)
MacDeliverSys(s, chunk) ==
    /\ backend = "mac"
    /\ sessions[s].stream = "running"
    /\ deliveries' = deliveries + 1
    /\ sessions' =
         [sessions EXCEPT ![s] = Send(@, "sysCh", "sysSent", chunk)]
    /\ UNCHANGED <<backend, callerPc, hist, scStream, writerHandle, events,
                   cpal, norm>>

\* did_output_sample_buffer(sample, SCStreamOutputType::Microphone)
MacDeliverMic(s, chunk) ==
    /\ backend = "mac"
    /\ sessions[s].stream = "running"
    /\ deliveries' = deliveries + 1
    /\ sessions' =
         [sessions EXCEPT ![s] = Send(@, "micCh", "micSent", chunk)]
    /\ UNCHANGED <<backend, callerPc, hist, scStream, writerHandle, events,
                   cpal, norm>>

\* a try_recv that reports Empty where the senders are gone
TryRecvNeverDisconnected(ch, stream) ==
    IF ch # <<>> THEN "data" ELSE "empty"

\* rx.try_recv(): "data" with a queued message, "disconnected" when the
\* queue is empty and every sender is gone, else "empty"
TryRecv(ch, stream) ==
    IF ch # <<>> THEN "data"
    ELSE IF stream = "dropped" THEN "disconnected"
    ELSE "empty"

\* match sys_rx.try_recv() { ... }
SysRecv(m) ==
    LET r == TryRecv(m.sysCh, m.stream)
    IN  IF r = "data"
        THEN [m EXCEPT !.sysCh = Tail(@),
                       !.sysCount = @ + 1,
                       !.sysBuf = @ \o StereoToMono(Head(m.sysCh))]
        ELSE IF r = "disconnected"
        THEN [m EXCEPT !.running = FALSE]
        ELSE m

\* match mic_rx.try_recv() { ... }
MicRecv(m) ==
    LET r == TryRecv(m.micCh, m.stream)
    IN  IF r = "data"
        THEN [m EXCEPT !.micCh = Tail(@),
                       !.micCount = @ + 1,
                       !.micBuf = @ \o MicToMono(Head(m.micCh))]
        ELSE IF r = "disconnected"
        THEN [m EXCEPT !.running = FALSE]
        ELSE m

\* whether the sink may start to fail at this batch of writes: a sink that
\* has failed stays failed, and a failure shows only when something is written
MayFail(m, samples, fails) == fails => (m.sinkOk /\ samples # <<>>)

\* let _ = writer.write_sample(..) for each sample: a failing sink returns
\* Err for each, which the thread ignores
WriteAll(m, samples, fails) ==
    IF m.sinkOk /\ ~fails
    THEN [m EXCEPT !.out = @ \o samples]
    ELSE [m EXCEPT !.sinkOk = FALSE, !.writeErrs = @ + Len(samples)]

\* a loop exit that goes straight to the send of Finished
AfterMixSkipsDrain(running) == IF running THEN "sys_recv" ELSE "send"

\* a loop test that never sees the cleared flag
AfterMixKeepsLooping(running) == "sys_recv"

\* the `while running` test that follows the pairing pass
AfterMix(running) == IF running THEN "sys_recv" ELSE "drain"

\* the pairing pass: write mix_len samples, drain both buffers by mix_len
PairingPass(m, fails) ==
    LET n == MixLen(m.sysBuf, m.micBuf)
        w == WriteAll(m, PairedSamples(m.sysBuf, m.micBuf), fails)
    IN  [w EXCEPT !.sysBuf = DrainFront(@, n),
                  !.micBuf = DrainFront(@, n),
                  !.paired = @ + n,
                  !.pc = AfterMix(m.running)]

\* the first half of a loop iteration: the poll of sys_rx
MixerSysRecv(s) ==
    /\ sessions[s].pc = "sys_recv"
    /\ sessions' =
         [sessions EXCEPT ![s] = [SysRecv(sessions[s]) EXCEPT !.pc = "mic_recv"]]
    /\ UNCHANGED <<backend, callerPc, hist, scStream, writerHandle, events,
                   cpal, deliveries, norm>>

\* the second half of a loop iteration: the poll of mic_rx, then the pairing
\* pass (which touches only what the thread owns) and the loop test
MixerMicRecv(s, fails) ==
    LET m == MicRecv(sessions[s])
    IN
    /\ sessions[s].pc = "mic_recv"
    /\ MayFail(m, PairedSamples(m.sysBuf, m.micBuf), fails)
    /\ sessions' = [sessions EXCEPT ![s] = PairingPass(m, fails)]
    /\ UNCHANGED <<backend, callerPc, hist, scStream, writerHandle, events,
                   cpal, deliveries, norm>>

\* the remainder after the loop, the shorter buffer padded with 0.0
MixerDrain(s, fails) ==
    LET m == sessions[s]
        w == WriteAll(m, PaddedSamples(m.sysBuf, m.micBuf), fails)
    IN
    /\ m.pc = "drain"
    /\ MayFail(m, PaddedSamples(m.sysBuf, m.micBuf), fails)
    /\ sessions' = [sessions EXCEPT ![s] = [w EXCEPT !.pc = "finalize"]]
    /\ UNCHANGED <<backend, callerPc, hist, scStream, writerHandle, events,
                   cpal, deliveries, norm>>

\* a finalize that is skipped once a write has failed
FinalizeUnlessWriteFailed(m) ==
    IF m.writeErrs > 0 THEN m ELSE [m EXCEPT !.finalized = @ + 1]

\* writer.finalize(): one finalize attempt on the sink, whatever the writes
\* before it returned
Finalize(m) == [m EXCEPT !.finalized = @ + 1]

\* let _ = writer.finalize()
MixerFinalize(s) ==
    /\ sessions[s].pc = "finalize"
    /\ sessions' =
         [sessions EXCEPT ![s] = [Finalize(sessions[s]) EXCEPT !.pc = "send"]]
    /\ UNCHANGED <<backend, callerPc, hist, scStream, writerHandle, events,
                   cpal, deliveries, norm>>

\* let _ = event_tx.send(Event::Finished); the closure ends and drops
\* sys_rx, mic_rx and the buffers
MixerSend(s) ==
    /\ sessions[s].pc = "send"
    /\ events' = Append(events, s)
    /\ sessions' = [sessions EXCEPT ![s].pc = "done", ![s].rx = "dropped"]
    /\ UNCHANGED <<backend, callerPc, hist, scStream, writerHandle, cpal,
                   deliveries, norm>>

\* stop_record, step 1: self.sc_stream.take(), stop_capture, drop the stream
MacStopTake ==
    /\ backend = "mac"
    /\ CanCall
    /\ sessions' = DropStream(sessions, scStream)
    /\ scStream' = 0
    /\ callerPc' = "stop_recv"
    /\ UNCHANGED <<backend, hist, writerHandle, events, cpal, deliveries,
                   norm>>

\* stop_record, step 3: event_rx.recv_timeout(2 s) returns a queued event
MacStopRecvEvent ==
    /\ backend = "mac"
    /\ callerPc = "stop_recv"
    /\ events # <<>>
    /\ events' = Tail(events)
    /\ callerPc' = "stop_join"
    /\ UNCHANGED <<backend, hist, scStream, writerHandle, sessions, cpal,
                   deliveries, norm>>

\* stop_record, step 3: the two seconds pass with no event
MacStopRecvTimeout ==
    /\ backend = "mac"
    /\ callerPc = "stop_recv"
    /\ events = <<>>
    /\ callerPc' = "stop_join"
    /\ UNCHANGED <<backend, hist, scStream, writerHandle, events, sessions,
                   cpal, deliveries, norm>>

\* h.join() returns once the thread of the handle has ended
JoinReady(handle) ==
    IF handle = 0 THEN TRUE ELSE sessions[handle].pc = "done"

\* A stop_record that reports a failed sink write to its caller
MacStopResultReportsFailure ==
    IF \E s \in Sess : sessions[s].writeErrs > 0 THEN "Err" ELSE "Ok"

\* The value stop_record returns: the literal Ok(()) of its last line.  The
\* results of stop_capture, recv_timeout and join are all discarded before it.
MacStopResult == "Ok"

\* stop_record, step 4: writer_handle.take(), join, Ok(())
MacStopJoin ==
    /\ backend = "mac"
    /\ callerPc = "stop_join"
    /\ JoinReady(writerHandle)
    /\ writerHandle' = 0
    /\ callerPc' = "idle"
    /\ Returned("stop", MacStopResult)
    /\ UNCHANGED <<backend, scStream, events, sessions, cpal, deliveries,
                   norm>>

(* ------------------------- CpalAudioCapture ----------------------------- *)

RECURSIVE SumSeq(_)
SumSeq(xs) == IF xs = <<>> THEN 0 ELSE Head(xs) + SumSeq(Tail(xs))

\* mix_to_mono(data, num_channels): one mean per full frame of n samples;
\* n = 0 yields nothing
MixToMono(data, n) ==
    IF n = 0 THEN <<>>
    ELSE [k \in 1..(Len(data) \div n) |->
            SumSeq(SubSeq(data, (k - 1) * n + 1, k * n)) \div n]

AudioSamples(data) == [kind |-> "audio", data |-> data]
StopMsg == [kind |-> "stop", data |-> <<>>]

\* let _ = tx.send(msg) on the wav channel
CpalSend(c, msg) ==
    IF c.wavRx = "dropped"
    THEN [c EXCEPT !.sendErrs = @ + 1]
    ELSE [c EXCEPT !.wavCh = Append(@, msg), !.sent = Append(@, msg)]

\* self.wav_rx.take().expect("Recording already started!") panics
CpalStartPanic ==
    /\ backend = "cpal"
    /\ CanCall
    /\ cpal.wavRx # "self"
    /\ callerPc' = "panicked"
    /\ Returned("start", "Panic")
    /\ UNCHANGED <<backend, scStream, writerHandle, events, sessions, cpal,
                   deliveries, norm>>

\* start_record fails at default_input_config, build_input_stream or play:
\* the wav_rx it took is dropped on return
CpalStartErrEarly ==
    /\ backend = "cpal"
    /\ CanCall
    /\ cpal.wavRx = "self"
    /\ cpal' = [cpal EXCEPT !.wavRx = "dropped"]
    /\ Returned("start", "Err")
    /\ UNCHANGED <<backend, callerPc, scStream, writerHandle, events,
                   sessions, deliveries, norm>>

\* start_record fails at WavWriter::create: the stream plays and is stored
\* in self.stream, the wav_rx it took is dropped on return
CpalStartErrWav ==
    /\ backend = "cpal"
    /\ CanCall
    /\ cpal.wavRx = "self"
    /\ cpal' = [cpal EXCEPT !.wavRx = "dropped", !.stream = "running"]
    /\ Returned("start", "Err")
    /\ UNCHANGED <<backend, callerPc, scStream, writerHandle, events,
                   sessions, deliveries, norm>>

\* start_record succeeds: stream stored, sink created, writer thread spawned
CpalStartOk ==
    /\ backend = "cpal"
    /\ CanCall
    /\ cpal.wavRx = "self"
    /\ cpal' = [cpal EXCEPT !.wavRx = "thread", !.stream = "running",
                            !.pc = "recv", !.sink = TRUE]
    /\ writerHandle' = 1
    /\ Returned("start", "Ok")
    /\ UNCHANGED <<backend, callerPc, scStream, events, sessions, deliveries,
                   norm>>

\* the input stream callback: mix_to_mono, then tx.send(AudioSamples(mono))
CpalDeliver(chunk) ==
    /\ backend = "cpal"
    /\ cpal.stream = "running"
    /\ deliveries' = deliveries + 1
    /\ cpal' = CpalSend(cpal, AudioSamples(MixToMono(chunk, cpal.channels)))
    /\ UNCHANGED <<backend, callerPc, hist, scStream, writerHandle, events,
                   sessions, norm>>

\* a writer thread that takes a chunk out of the channel and writes nothing
CpalMatchSkipsChunk(c, msg, fails) ==
    IF msg.kind = "stop" THEN [c EXCEPT !.pc = "send"] ELSE c

\* the match of the writer thread: AudioSamples(data) writes each sample of
\* the chunk, Stop breaks out of the loop
CpalMatch(c, msg, fails) ==
    IF msg.kind = "stop"
    THEN [c EXCEPT !.pc = "send"]
    ELSE WriteAll(c, msg.data, fails)

\* one turn of `while let Ok(msg) = wav_rx.recv()`: recv blocks while the
\* channel is empty (self.wav_tx keeps it connected)
CpalWriterRecv(fails) ==
    LET msg == Head(cpal.wavCh)
        c   == [cpal EXCEPT !.wavCh = Tail(@)]
    IN
    /\ backend = "cpal"
    /\ cpal.pc = "recv"
    /\ cpal.wavCh # <<>>
    /\ MayFail(c, msg.data, fails)
    /\ cpal' = CpalMatch(c, msg, fails)
    /\ UNCHANGED <<backend, callerPc, hist, scStream, writerHandle, events,
                   sessions, deliveries, norm>>

\* let _ = event_tx.send(Event::Finished), the last statement of the closure
CpalWriterSend ==
    /\ backend = "cpal"
    /\ cpal.pc = "send"
    /\ events' = Append(events, 1)
    /\ cpal' = [cpal EXCEPT !.pc = "end"]
    /\ UNCHANGED <<backend, callerPc, hist, scStream, writerHandle, sessions,
                   deliveries, norm>>

\* the closure ends: wav_rx and the writer are dropped, and the drop of a
\* WavWriter that was not finalized finalizes it; the thread has terminated
CpalWriterEnd ==
    /\ backend = "cpal"
    /\ cpal.pc = "end"
    /\ cpal' = [cpal EXCEPT !.pc = "done", !.wavRx = "dropped",
                            !.dropped = @ + 1]
    /\ UNCHANGED <<backend, callerPc, hist, scStream, writerHandle, events,
                   sessions, deliveries, norm>>

\* stop_record: self.stream.take(), pause, drop; wav_tx.send(ProcMsg::Stop)
CpalStopBegin ==
    /\ backend = "cpal"
    /\ CanCall
    /\ cpal' = CpalSend([cpal EXCEPT !.stream = "none"], StopMsg)
    /\ callerPc' = "stop_recv"
    /\ UNCHANGED <<backend, hist, scStream, writerHandle, events, sessions,
                   deliveries, norm>>

\* stop_record: self.event_rx.recv() returns once an event is queued; it has
\* no timeout, and self.event_tx keeps the channel connected
CpalStopRecv ==
    /\ backend = "cpal"
    /\ callerPc = "stop_recv"
    /\ events # <<>>
    /\ events' = Tail(events)
    /\ callerPc' = "stop_join"
    /\ UNCHANGED <<backend, hist, scStream, writerHandle, sessions, cpal,
                   deliveries, norm>>

\* stop_record: writer_handle.take(), join, Ok(())
CpalStopJoin ==
    /\ backend = "cpal"
    /\ callerPc = "stop_join"
    /\ (writerHandle # 0 => cpal.pc = "done")
    /\ writerHandle' = 0
    /\ callerPc' = "idle"
    /\ Returned("stop", "Ok")
    /\ UNCHANGED <<backend, scStream, events, sessions, cpal, deliveries,
                   norm>>

(* --------------------------- specification ------------------------------ *)

\* any caller: up to MaxCalls calls of start_record and stop_record in any
\* order, up to MaxDeliveries chunks from the capture callbacks
Next ==
    \/ MacStartErrEarly
    \/ MacStartErrWav
    \/ MacStartOk
    \/ \E s \in Sess, c \in CallChunks :
         deliveries < MaxDeliveries /\ MacDeliverSys(s, c)
    \/ \E s \in Sess, c \in CallChunks :
         deliveries < MaxDeliveries /\ MacDeliverMic(s, c)
    \/ \E s \in Sess : MixerSysRecv(s)
    \/ \E s \in Sess, f \in BOOLEAN : MixerMicRecv(s, f)
    \/ \E s \in Sess, f \in BOOLEAN : MixerDrain(s, f)
    \/ \E s \in Sess : MixerFinalize(s)
    \/ \E s \in Sess : MixerSend(s)
    \/ MacStopTake
    \/ MacStopRecvEvent
    \/ MacStopRecvTimeout
    \/ MacStopJoin
    \/ CpalStartPanic
    \/ CpalStartErrEarly
    \/ CpalStartErrWav
    \/ CpalStartOk
    \/ \E c \in CallChunks : deliveries < MaxDeliveries /\ CpalDeliver(c)
    \/ \E f \in BOOLEAN : CpalWriterRecv(f)
    \/ CpalWriterSend
    \/ CpalWriterEnd
    \/ CpalStopBegin
    \/ CpalStopRecv
    \/ CpalStopJoin

Spec == Init /\ [][Next]_vars

\* the caller of main.rs: one start_record that succeeds, then one
\* stop_record; up to MaxSingleDeliveries chunks from the capture callbacks
FirstCall == hist = <<>>
SecondCall == hist = <<[op |-> "start", res |-> "Ok"]>>

SingleNext ==
    \/ FirstCall /\ MacStartOk
    \/ \E s \in Sess, c \in Chunks :
         deliveries < MaxSingleDeliveries /\ MacDeliverSys(s, c)
    \/ \E s \in Sess, c \in Chunks :
         deliveries < MaxSingleDeliveries /\ MacDeliverMic(s, c)
    \/ \E s \in Sess : MixerSysRecv(s)
    \/ \E s \in Sess, f \in BOOLEAN : MixerMicRecv(s, f)
    \/ \E s \in Sess, f \in BOOLEAN : MixerDrain(s, f)
    \/ \E s \in Sess : MixerFinalize(s)
    \/ \E s \in Sess : MixerSend(s)
    \/ SecondCall /\ MacStopTake
    \/ MacStopRecvEvent
    \/ MacStopRecvTimeout
    \/ MacStopJoin
    \/ FirstCall /\ CpalStartOk
    \/ \E c \in Chunks : deliveries < MaxSingleDeliveries /\ CpalDeliver(c)
    \/ \E f \in BOOLEAN : CpalWriterRecv(f)
    \/ CpalWriterSend
    \/ CpalWriterEnd
    \/ SecondCall /\ CpalStopBegin
    \/ CpalStopRecv
    \/ CpalStopJoin

SingleSpec == Init /\ [][SingleNext]_vars

\* the cpal capture object alone: any caller of up to MaxCalls calls, up to
\* MaxSingleDeliveries chunks from the input stream callback
CpalInit == Init /\ backend = "cpal"

CpalNext ==
    \/ CpalStartPanic
    \/ CpalStartErrEarly
    \/ CpalStartErrWav
    \/ CpalStartOk
    \/ \E c \in Chunks : deliveries < MaxSingleDeliveries /\ CpalDeliver(c)
    \/ \E f \in BOOLEAN : CpalWriterRecv(f)
    \/ CpalWriterSend
    \/ CpalWriterEnd
    \/ CpalStopBegin
    \/ CpalStopRecv
    \/ CpalStopJoin

CpalSpec == CpalInit /\ [][CpalNext]_vars

\* the steps of the threads the operating system schedules
MixerStep(s) ==
    \/ MixerSysRecv(s)
    \/ \E f \in BOOLEAN : MixerMicRecv(s, f)
    \/ \E f \in BOOLEAN : MixerDrain(s, f)
    \/ MixerFinalize(s)
    \/ MixerSend(s)

MixerThreads == \E s \in Sess : MixerStep(s)

CpalWriterThread ==
    \/ \E f \in BOOLEAN : CpalWriterRecv(f)
    \/ CpalWriterSend
    \/ CpalWriterEnd

\* the caller's thread inside stop_record: recv_timeout / recv, then join
StopSteps ==
    \/ MacStopRecvEvent
    \/ MacStopRecvTimeout
    \/ MacStopJoin
    \/ CpalStopRecv
    \/ CpalStopJoin

\* every thread that can run is eventually run
SingleFairSpec ==
    /\ SingleSpec
    /\ WF_vars(MixerThreads)
    /\ WF_vars(CpalWriterThread)
    /\ WF_vars(StopSteps)

(* ------------------------- channel normalizers -------------------------- *)

\* every chunk of 1..MaxNormLen samples
NormInputs ==
    UNION {[1..len -> NormSamples] : len \in 1..MaxNormLen}

\* the channel count of the source a normalizer is written for: the
\* ScreenCaptureKit stream is configured with_channel_count(2) and its
\* microphone is taken as mono, the cpal callback is given
\* config.channels(), the BlackHole device is taken as stereo
SiteChannels(site) ==
    IF site = "microphone" THEN {1}
    ELSE IF site = "cpal" THEN CpalChannels
    ELSE {2}

\* a normalizer is handed one chunk
NormInit ==
    /\ InitCapture
    /\ norm \in { [site |-> st, n |-> n, data |-> d, out |-> <<>>,
                    done |-> FALSE] :
                    st \in NormSites, n \in 1..2, d \in NormInputs }
    /\ norm.n \in SiteChannels(norm.site)

Normalized(out) == norm' = [norm EXCEPT !.out = out, !.done = TRUE]

NormUnchanged ==
    UNCHANGED <<backend, callerPc, hist, scStream, writerHandle, events,
                sessions, cpal, deliveries>>

\* the Ok(ProcMsg::SystemAudio(data)) arm of the mixer thread
NormalizeSystem ==
    /\ norm.site = "system" /\ ~norm.done
    /\ Normalized(StereoToMono(norm.data))
    /\ NormUnchanged

\* the Ok(ProcMsg::MicrophoneAudio(data)) arm of the mixer thread
NormalizeMicrophone ==
    /\ norm.site = "microphone" /\ ~norm.done
    /\ Normalized(MicToMono(norm.data))
    /\ NormUnchanged

\* the cpal input callback: mix_to_mono(data, num_channels)
NormalizeCpal ==
    /\ norm.site = "cpal" /\ ~norm.done
    /\ Normalized(MixToMono(norm.data, norm.n))
    /\ NormUnchanged

\* the writer thread of the BlackHole capture, after its receive loop
NormalizeBlackHole ==
    /\ norm.site = "blackhole" /\ ~norm.done
    /\ Normalized(BlackHoleToMono(norm.data))
    /\ NormUnchanged

NormNext ==
    \/ NormalizeSystem
    \/ NormalizeMicrophone
    \/ NormalizeCpal
    \/ NormalizeBlackHole

NormSpec == NormInit /\ [][NormNext]_vars

(* ------------------------- the mixing arithmetic ------------------------ *)

\* one stereo frame of system audio
MixSysChunks == [1..2 -> MixSamples]

\* one or two microphone samples
MixMicChunks == [1..1 -> MixSamples] \cup [1..2 -> {-24, 0, 24}]

\* a session that start_record has started, with one chunk of any sample
\* values delivered into each channel and not yet taken by the mixer
MixSession(sys, mic) ==
    [NewSession(TRUE) EXCEPT !.sysCh = <<sys>>, !.sysSent = <<sys>>,
                             !.micCh = <<mic>>, !.micSent = <<mic>>]

MixInit ==
    /\ backend = "mac"
    /\ callerPc = "idle"
    /\ hist = <<StartOk>>
    /\ scStream = 1
    /\ writerHandle = 1
    /\ events = <<>>
    /\ sessions \in {<<MixSession(sys, mic)>> :
                       sys \in MixSysChunks, mic \in MixMicChunks}
    /\ cpal = NewCpal(1)
    /\ deliveries = 2
    /\ norm = NoNorm

\* the mixer thread runs, and the caller stops the session
MixNext ==
    \/ \E s \in Sess : MixerSysRecv(s)
    \/ \E s \in Sess, f \in BOOLEAN : MixerMicRecv(s, f)
    \/ \E s \in Sess, f \in BOOLEAN : MixerDrain(s, f)
    \/ \E s \in Sess : MixerFinalize(s)
    \/ \E s \in Sess : MixerSend(s)
    \/ SecondCall /\ MacStopTake
    \/ MacStopRecvEvent
    \/ MacStopRecvTimeout
    \/ MacStopJoin

MixSpec == MixInit /\ [][MixNext]_vars

(* ------------------------- derived quantities --------------------------- *)

RECURSIVE Flatten(_)
Flatten(chunks) ==
    IF chunks = <<>> THEN <<>> ELSE Head(chunks) \o Flatten(Tail(chunks))

\* the mono samples of a sequence of system-audio chunks, in arrival order
SysMono(chunks) ==
    Flatten([i \in 1..Len(chunks) |-> StereoToMono(chunks[i])])

\* the mono samples of a sequence of microphone chunks, in arrival order
MicMono(chunks) ==
    Flatten([i \in 1..Len(chunks) |-> MicToMono(chunks[i])])

\* the samples a source delivered: every chunk a callback sent into a channel
SysDelivered(m) == SysMono(m.sysSent)
MicDelivered(m) == MicMono(m.micSent)

\* the samples the mixer took out of a channel: the first sys_count
\* (mic_count) chunks that were sent into it
SysReceived(m) == SysMono(SubSeq(m.sysSent, 1, m.sysCount))
MicReceived(m) == MicMono(SubSeq(m.micSent, 1, m.micCount))

\* the mixer thread has left its drain: everything it writes is written
MixerFinished(m) == m.pc \in {"finalize", "send", "done"}

(* ------------------------------- claims --------------------------------- *)

\* C1: with a healthy sink, once the mixer has finished, the samples written
\* by the pairing passes number min(system samples delivered, microphone
\* samples delivered) and the samples written in all number the max of the two
C1_MixedCounts ==
    \A s \in Sess :
      LET m == sessions[s]
      IN  (MixerFinished(m) /\ m.sinkOk) =>
            /\ m.paired = Min(Len(SysDelivered(m)), Len(MicDelivered(m)))
            /\ Len(m.out) = Max(Len(SysDelivered(m)), Len(MicDelivered(m)))

\* C2: when Finished has been sent, no chunk is left unread in either channel
\* and, with a healthy sink, every delivered sample has an output position
C2_NothingLeftUnread ==
    \A s \in Sess :
      LET m == sessions[s]
      IN  m.pc = "done" =>
            /\ m.sysCh = <<>> /\ m.micCh = <<>>
            /\ m.sysCount = Len(m.sysSent) /\ m.micCount = Len(m.micSent)
            /\ m.sinkOk =>
                 /\ Len(m.out) >= Len(SysDelivered(m))
                 /\ Len(m.out) >= Len(MicDelivered(m))

\* C3: output position i holds the mix of the i-th mono system sample and the
\* i-th microphone sample the mixer received, each counted in the order the
\* source sent them; a source that has no i-th sample counts as silence
C3_PositionalPairing ==
    \A s \in Sess :
      LET m == sessions[s]
      IN  \A i \in 1..Len(m.out) :
            m.out[i] = MixedSample(GetOr0(SysReceived(m), i),
                                   GetOr0(MicReceived(m), i))

\* C3 witness: the mixer has finished after taking two chunks from a source,
\* having written paired samples and a padded one, of different values
C3_Witness ==
    \E s \in Sess :
      LET m == sessions[s]
      IN  /\ m.pc = "done"
          /\ m.micCount >= 2 /\ m.sysCount >= 1
          /\ m.paired >= 1
          /\ Len(m.out) > m.paired
          /\ \E i, j \in 1..Len(m.out) : m.out[i] # m.out[j]

(* lifecycle, as far as the fields of the objects show it *)

\* the object after one session that was started and stopped: no stream and
\* no handle are stored, the thread has ended, and the sink was finalized
\* once (the cpal writer thread leaves that to the drop of its WavWriter)
Stopped ==
    /\ callerPc = "idle"
    /\ hist = <<StartOk, StopOk>>
    /\ scStream = 0
    /\ writerHandle = 0
    /\ backend = "mac" =>
         /\ Len(sessions) = 1
         /\ sessions[1].pc = "done"
         /\ sessions[1].stream = "dropped"
         /\ sessions[1].finalized = 1
    /\ backend = "cpal" =>
         /\ cpal.pc = "done"
         /\ cpal.stream = "none"
         /\ cpal.dropped = 1

\* C4: after one start_record that succeeded, one stop_record always ends
\* in Stopped: the thread has terminated and the sink was finalized once,
\* whatever the sources delivered and whenever
C4_StopOnceReachesStopped == (callerPc = "stop_recv") ~> Stopped

\* C4 witness: Stopped is reached on the ScreenCaptureKit path with a system
\* source that delivered nothing and a microphone that delivered, and with
\* the stop having timed out on the completion signal
C4_Witness ==
    /\ Stopped
    /\ backend = "mac"
    /\ sessions[1].sysSent = <<>>
    /\ sessions[1].micSent # <<>>
    /\ events # <<>>

\* C5: stop_record never waits forever: whenever the caller is inside
\* stop_record, some thread can still take a step
C5_StopNeverBlocks ==
    callerPc \in {"stop_recv", "stop_join"} => ENABLED Next

\* C6: a stop_record that no start_record preceded returns an error, and it
\* creates no sink and leaves the object idle
C6_StopBeforeStartIsError ==
    /\ \A i \in 1..Len(hist) :
         (hist[i].op = "stop" /\ \A j \in 1..(i - 1) : hist[j].op # "start")
           => hist[i].res = "Err"
    /\ (\A i \in 1..Len(hist) : hist[i].op = "stop")
         => (sessions = <<>> /\ ~cpal.sink /\ scStream = 0 /\ writerHandle = 0)

\* C7: a stop_record that follows the stop_record of a started session
\* returns an error
C7_SecondStopIsError ==
    \A i \in 2..Len(hist) :
      ( /\ hist[i].op = "stop"
        /\ hist[i - 1].op = "stop"
        /\ \E j \in 1..(i - 2) : hist[j] = StartOk )
        => hist[i].res = "Err"

\* C8: a start_record that follows a successful start_record returns an error
\* value and changes nothing: one session, its stream and its thread as before
C8_SecondStartRejected ==
    (Len(hist) = 2 /\ hist[1] = StartOk /\ hist[2].op = "start")
      => /\ hist[2].res = "Err"
         /\ backend = "mac" =>
              /\ Len(sessions) = 1
              /\ scStream = 1
              /\ writerHandle = 1
              /\ sessions[1].stream = "running"
         /\ backend = "cpal" =>
              /\ cpal.stream = "running"
              /\ writerHandle = 1

\* C9: after a start_record that returned an error no thread was spawned, no
\* stream is running or stored, and a later start_record can still succeed
C9_FailedStartLeavesIdle ==
    ( /\ callerPc = "idle"
      /\ hist # <<>>
      /\ \A i \in 1..Len(hist) : hist[i] = [op |-> "start", res |-> "Err"] )
      => /\ scStream = 0
         /\ writerHandle = 0
         /\ \A s \in Sess :
              sessions[s].stream # "running" /\ sessions[s].pc = "none"
         /\ cpal.stream = "none"
         /\ cpal.pc = "none"
         /\ cpal.wavRx = "self"

\* C10: after a write to the sink has failed the mixer attempts no further
\* write and sends no Finished
C10_WriteFailureAborts ==
    \A s \in Sess :
      sessions[s].writeErrs > 0 =>
        /\ sessions[s].writeErrs = 1
        /\ sessions[s].pc \notin {"send", "done"}
        /\ \A k \in 1..Len(events) : events[k] # s

\* the samples the cpal writer thread took out of its channel: the data of
\* the messages sent into it that are no longer queued
CpalReceived(c) ==
    Flatten([i \in 1..(Len(c.sent) - Len(c.wavCh)) |-> c.sent[i].data])

\* C11: when the stop_record of a started session has returned Ok, the thread
\* of the session has terminated, the sink has been finalized, and every
\* sample the thread received is in the sink
C11_StopOkMeansWritten ==
    hist = <<StartOk, StopOk>> =>
      /\ backend = "mac" =>
           LET m == sessions[1]
           IN  /\ m.pc = "done"
               /\ m.finalized = 1
               /\ Len(m.out) =
                    Max(Len(SysReceived(m)), Len(MicReceived(m)))
      /\ backend = "cpal" =>
           /\ cpal.pc = "done"
           /\ cpal.dropped = 1
           /\ cpal.out = CpalReceived(cpal)

\* the messages sent into the two channels of a session that no capture
\* callback sent (the callbacks' sends are counted by `deliveries`, the failed
\* ones by send_errs); with one session these are the sends of stop_record
MacStopsSent(m) ==
    Len(m.sysSent) + Len(m.micSent) + m.sendErrs - deliveries

\* the Stop messages sent into the wav channel
CpalStopsSent(c) ==
    Cardinality({i \in 1..Len(c.sent) : c.sent[i].kind = "stop"})

\* C12: the stop_record of a started session has sent Stop into each source
\* channel of the session, once per channel: two on the ScreenCaptureKit
\* path (system and microphone), one on the cpal path (its single channel)
C12_StopInjectedOnce ==
    hist = <<StartOk, StopOk>> =>
      /\ backend = "mac" => MacStopsSent(sessions[1]) = 2
      /\ backend = "cpal" => CpalStopsSent(cpal) = 1

\* C13: the completion event of a session is consumed by the stop_record of
\* that session: once a stop_record has returned and the caller is idle, no
\* completion event is left in the event channel
C13_CompletionConsumed ==
    ( /\ callerPc = "idle"
      /\ hist # <<>>
      /\ hist[Len(hist)] = StopOk )
      => events = <<>>

\* C14: once a started session has been stopped, no later start_record
\* succeeds and none creates a stream, a channel pair or a thread
C14_StoppedIsTerminal ==
    (Len(hist) >= 2 /\ hist[1] = StartOk /\ hist[2] = StopOk) =>
      /\ \A i \in 3..Len(hist) : hist[i] # StartOk
      /\ backend = "mac" =>
           /\ Len(sessions) = 1
           /\ scStream = 0
           /\ writerHandle = 0
      /\ backend = "cpal" =>
           /\ cpal.stream = "none"
           /\ cpal.pc = "done"

\* a capture callback has run in this step
CallbackRan == deliveries' = deliveries + 1

\* the step left everything of the caller and of the event channel alone
CallerUntouched ==
    UNCHANGED <<callerPc, hist, scStream, writerHandle, events>>

\* the callbacks of a running stream have no guard on the state of the
\* channel: channel() is unbounded and send never waits
CallbacksNeverWait ==
    /\ \A s \in Sess : \A c \in CallChunks :
         (backend = "mac" /\ sessions[s].stream = "running")
           => (ENABLED MacDeliverSys(s, c) /\ ENABLED MacDeliverMic(s, c))
    /\ \A c \in CallChunks :
         (backend = "cpal" /\ cpal.stream = "running") => ENABLED CpalDeliver(c)

\* a callback whose receiver is gone changes nothing but the count of the
\* failed sends, and one whose receiver lives queues one message
CallbackStep ==
    CallbackRan =>
      /\ CallerUntouched
      /\ \A s \in Sess :
           LET m == sessions[s]
               n == sessions'[s]
           IN  IF m.rx = "dropped"
               THEN n = m \/ n = [m EXCEPT !.sendErrs = @ + 1]
               ELSE /\ n.sendErrs = m.sendErrs
                    /\ Len(n.sysCh) + Len(n.micCh)
                         <= Len(m.sysCh) + Len(m.micCh) + 1
      /\ IF cpal.wavRx = "dropped"
         THEN cpal' = cpal \/ cpal' = [cpal EXCEPT !.sendErrs = @ + 1]
         ELSE /\ cpal'.sendErrs = cpal.sendErrs
              /\ Len(cpal'.wavCh) <= Len(cpal.wavCh) + 1

\* C15: a capture callback never waits on its channel and attempts its send
\* once; when the receiver of the channel is gone the chunk is dropped and
\* nothing else changes: no error, no panic, no effect on the caller
C15_CallbackSendNeverFails ==
    [](CallbacksNeverWait) /\ [][CallbackStep]_vars

\* C15 witness: a callback has sent into a channel whose receiver was dropped
\* by a start_record that failed after it had started the stream
C15_Witness ==
    /\ callerPc = "idle"
    /\ hist # <<>>
    /\ hist[Len(hist)] = [op |-> "start", res |-> "Err"]
    /\ \/ \E s \in Sess :
            /\ sessions[s].sendErrs = 1
            /\ sessions[s].sysSent = <<>>
            /\ sessions[s].micSent = <<>>
       \/ (cpal.sendErrs = 1 /\ cpal.sent = <<>>)

\* the output for a source mixed with silence alone: every sample averaged
\* with 0.0 and converted to i16
MixedWithSilence(samples) ==
    [i \in 1..Len(samples) |-> MixedSample(samples[i], 0)]

\* C16: when one source has delivered nothing and the mixer has finished
\* with a healthy sink, the output is the other source's delivered samples,
\* one output sample for each, each mixed with silence (halved); the system
\* chunk [0.5] alone gives [0.25]
C16_OneSourceSilent ==
    \A s \in Sess :
      LET m == sessions[s]
      IN  (MixerFinished(m) /\ m.sinkOk) =>
            /\ m.micSent = <<>> => m.out = MixedWithSilence(Flatten(m.sysSent))
            /\ m.sysSent = <<>> => m.out = MixedWithSilence(Flatten(m.micSent))

\* 0.5 as the sink stores it
HalfI16 == ToI16(Unit \div 2)

\* C17: the mixer has taken the system chunks [1.0, 1.0], [0.0] and the
\* microphone chunk [0.0, 0.0, 1.0], nothing else was delivered, and it has
\* finished with a healthy sink: the output is [0.5, 0.5, 0.5], three paired
\* samples and none padded
C17_ScenarioThreePaired ==
    \A s \in Sess :
      LET m == sessions[s]
      IN  ( /\ MixerFinished(m) /\ m.sinkOk
            /\ m.sysSent = << <<Unit, Unit>>, <<0>> >>
            /\ m.micSent = << <<0, 0, Unit>> >>
            /\ m.sysCount = 2 /\ m.micCount = 1 )
            => /\ m.out = <<HalfI16, HalfI16, HalfI16>>
               /\ m.paired = 3

\* frame k of an interleaved chunk of n channels
Frame(data, n, k) == SubSeq(data, (k - 1) * n + 1, k * n)

\* C18: the mono sequence a normalizer makes of a chunk of length L from a
\* source of N channels has length L div N, and its k-th element is the
\* arithmetic mean of the N samples of frame k
C18_NormalizerFrameMeans ==
    (norm.site # "none" /\ norm.done) =>
      /\ Len(norm.out) = Len(norm.data) \div norm.n
      /\ \A k \in 1..Len(norm.out) :
           k <= Len(norm.data) \div norm.n =>
             norm.out[k] * norm.n = SumSeq(Frame(norm.data, norm.n, k))

\* C19: clearing the running flag discards nothing: when the mixer has seen
\* the end of a channel, its buffers hold every sample it received and has
\* not yet paired, a chunk taken in the same iteration included, and by the
\* time it has left the drain (so before Finished is sent) it has handed one
\* output sample to the sink for every position of the longer side
C19_StopKeepsBufferedSamples ==
    \A s \in Sess :
      LET m    == sessions[s]
          sysR == SysReceived(m)
          micR == MicReceived(m)
      IN  /\ (~m.running /\ m.pc \in {"mic_recv", "drain"}) =>
               /\ m.sysBuf = DrainFront(sysR, m.paired)
               /\ m.micBuf = DrainFront(micR, m.paired)
          /\ MixerFinished(m) =>
               /\ Len(m.out) + m.writeErrs = Max(Len(sysR), Len(micR))
               /\ m.sinkOk => Len(m.out) = Max(Len(sysR), Len(micR))

\* C19 witness: the mixer has left its loop with a system sample still
\* buffered after a pairing pass, and the drain is about to emit it
C19_Witness ==
    \E s \in Sess :
      LET m == sessions[s]
      IN  /\ m.pc = "drain"
          /\ ~m.running
          /\ m.paired >= 1
          /\ m.sysBuf # <<>>
          /\ m.micBuf = <<>>

\* the Finished of session s has been sent
FinishedSent(s) == \E k \in 1..Len(events) : events[k] = s

\* C20: the thread finalizes its sink after its last write and before it
\* sends Finished: once Finished is sent (or the send is the next step) the
\* sink is finalized, and a finalized sink belongs to a thread that is past
\* its drain
C20_FinalizeBeforeFinished ==
    /\ \A s \in Sess :
         LET m == sessions[s]
         IN  /\ (m.pc \in {"send", "done"} \/ FinishedSent(s)) => m.finalized = 1
             /\ m.finalized >= 1 => m.pc \in {"send", "done"}
    /\ backend = "cpal" =>
         /\ (cpal.pc \in {"end", "done"} \/ events # <<>>) => cpal.dropped = 1
         /\ cpal.dropped >= 1 => cpal.pc = "done"

\* C21: the sink of a thread is given one finalize attempt on every path
\* through the thread: none before the thread has left its drain, exactly one
\* from then on, whether or not a write failed and although the loop is left
\* through a disconnection; the cpal writer thread gives it by dropping its
\* WavWriter when the closure ends
C21_FinalizeExactlyOnce ==
    /\ \A s \in Sess :
         LET m == sessions[s]
         IN  m.finalized = IF m.pc \in {"send", "done"} THEN 1 ELSE 0
    /\ cpal.dropped = IF cpal.pc = "done" THEN 1 ELSE 0

\* C21 witness: a mixer thread has ended after a failed write, having left
\* its loop on a disconnection, and its sink was finalized once
C21_Witness ==
    \E s \in Sess :
      LET m == sessions[s]
      IN  /\ m.pc = "done"
          /\ m.writeErrs > 0
          /\ m.stream = "dropped"
          /\ m.finalized = 1

\* the end of a channel is the next thing its try_recv returns: the senders
\* are gone and nothing is queued
EndIsNext(ch, m) == m.stream = "dropped" /\ ch = <<>>

\* what one step does to the mixer thread of session s
MixerStepOrder(s) ==
    LET m == sessions[s]
        n == sessions'[s]
    IN  /\ \* the poll of a channel whose end is next clears the flag
           (m.pc = "sys_recv" /\ n.pc = "mic_recv" /\ EndIsNext(m.sysCh, m))
             => ~n.running
        /\ \* the iteration in which the flag is cleared is the last one
           ( /\ m.pc = "mic_recv" /\ n.pc # "mic_recv"
             /\ (~m.running \/ EndIsNext(m.micCh, m)) )
             => n.pc = "drain"
        /\ \* the end is seen only once the chunks queued before it are taken
           (m.running /\ ~n.running) =>
             \/ m.pc = "sys_recv" /\ EndIsNext(m.sysCh, m)
             \/ m.pc = "mic_recv" /\ EndIsNext(m.micCh, m)
        /\ \* a poll takes one chunk, and each channel is polled once a turn
           /\ n.sysCount \in {m.sysCount, m.sysCount + 1}
           /\ n.micCount \in {m.micCount, m.micCount + 1}
           /\ n.sysCount # m.sysCount => (m.pc = "sys_recv" /\ n.pc = "mic_recv")
           /\ n.micCount # m.micCount => (m.pc = "mic_recv" /\ n.pc # "mic_recv")
        /\ \* while the end is not next, a poll of a non-empty channel takes
           \* its oldest chunk and the loop goes on
           ( /\ m.pc = "mic_recv" /\ n.pc # "mic_recv"
             /\ m.running /\ m.micCh # <<>> )
             => (n.pc = "sys_recv" /\ n.micCh = Tail(m.micCh))

\* C22: once the end of a channel is the next thing the mixer can receive
\* from it, the first iteration that polls the channel is the last one of the
\* loop; an end that lies behind k queued chunks is seen only after the k
\* chunks were taken, one in each iteration
C22_StopSeenInNextIteration ==
    [][\A s \in Sess : MixerStepOrder(s)]_vars

\* C22 witness: the stream is gone while chunks are still queued in both
\* channels, the mixer is at the top of its loop and has to take them first
C22_Witness ==
    \E s \in Sess :
      LET m == sessions[s]
      IN  /\ m.pc = "sys_recv"
          /\ m.stream = "dropped"
          /\ m.sysCh # <<>>
          /\ m.micCh # <<>>
          /\ m.sysCount + m.micCount >= 1

\* the mixer threads that were spawned and have not ended; each holds a
\* WavWriter on "temp.wav"
AliveMixers == {s \in Sess : sessions[s].pc \notin {"none", "done"}}

\* the calls of start_record that spawned a thread
ThreadsSpawned == {i \in 1..Len(hist) : hist[i] = StartOk}

\* C23: at most one thread that writes to the sink is alive on a capture
\* object at any time; the cpal object, whose writer thread owns the one
\* wav_rx, spawns at most one thread in its life
C23_OneMixerThread ==
    /\ Cardinality(AliveMixers) <= 1
    /\ backend = "cpal" => Cardinality(ThreadsSpawned) <= 1

\* twice the average of the pair that stands at output position i, in units
\* of 1/Unit: the sum of the two received samples, 0.0 for a missing one
PairSum(m, i) == GetOr0(SysReceived(m), i) + GetOr0(MicReceived(m), i)

\* v is x * 32767 with its fraction cut off, for x = sum / (2 * Unit)
IsScaled(v, sum) ==
    /\ (sum >= 0 => v >= 0) /\ (sum <= 0 => v <= 0)
    /\ LET exact == sum * I16Scale
           got   == v * 2 * Unit
       IN  IF sum >= 0 THEN got <= exact /\ exact < got + 2 * Unit
           ELSE got >= exact /\ exact > got - 2 * Unit

\* C24: every sample in the sink, written by the pairing pass or by the
\* drain, is the average of its pair, held to [-1.0, 1.0] and scaled by
\* 32767: it is full scale when the average is beyond full scale, and it
\* always lies in -32767..32767
C24_WrittenSamplesInRange ==
    \A s \in Sess :
      LET m == sessions[s]
      IN  \A i \in 1..Len(m.out) :
            /\ m.out[i] \in -I16Scale..I16Scale
            /\ IF PairSum(m, i) >= 2 * Unit THEN m.out[i] = I16Scale
               ELSE IF PairSum(m, i) <= -(2 * Unit) THEN m.out[i] = -I16Scale
               ELSE IsScaled(m.out[i], PairSum(m, i))

\* C24 witness: the sink holds a paired sample and a padded one, one of an
\* average above 1.0 and one of an average below -1.0
C24_Witness ==
    \E s \in Sess :
      LET m == sessions[s]
      IN  /\ m.pc = "done"
          /\ m.paired = 1
          /\ Len(m.out) = 2
          /\ \E i, j \in 1..2 :
               /\ PairSum(m, i) > 2 * Unit /\ m.out[i] = I16Scale
               /\ PairSum(m, j) < -(2 * Unit) /\ m.out[j] = -I16Scale

\* the mixer is between two iterations of its loop or past the loop: the
\* pairing pass of the last iteration is done
IterationEnded(m) == m.pc \in {"sys_recv", "drain", "finalize", "send", "done"}

AbsDiff(a, b) == IF a >= b THEN a - b ELSE b - a

\* C25: at the end of every iteration of the mixer loop one of the two
\* buffers is empty, and the other holds as many samples as the counts of
\* mono system samples and of microphone samples received so far differ
C25_LoopInvariant ==
    \A s \in Sess :
      LET m == sessions[s]
      IN  IterationEnded(m) =>
            /\ m.sysBuf = <<>> \/ m.micBuf = <<>>
            /\ Max(Len(m.sysBuf), Len(m.micBuf)) =
                 AbsDiff(Len(SysReceived(m)), Len(MicReceived(m)))

\* C25 witness: an iteration has ended in which samples were paired and two
\* microphone samples were left over
C25_Witness ==
    \E s \in Sess :
      LET m == sessions[s]
      IN  /\ m.pc = "sys_recv"
          /\ m.paired >= 1
          /\ m.sysBuf = <<>>
          /\ Len(m.micBuf) = 2

\* the senders of the channels of session s are gone and its thread exists
SendersDropped(s) ==
    /\ s \in Sess
    /\ sessions[s].stream = "dropped"
    /\ sessions[s].pc # "none"

\* the thread of session s has ended after its drain, one finalize and the
\* send of Finished
EndedInOrder(s) ==
    LET m == sessions[s]
    IN  /\ s \in Sess
        /\ m.pc = "done"
        /\ ~m.running
        /\ Len(m.out) + m.writeErrs =
             Max(Len(SysReceived(m)), Len(MicReceived(m)))
        /\ m.finalized = 1

\* once the flag is cleared the loop has at most the microphone poll of the
\* same iteration left
ClearedFlagEndsLoop ==
    \A s \in Sess : ~sessions[s].running => sessions[s].pc # "sys_recv"

\* C26: with no Stop ever sent, the mixer thread of a session whose senders
\* are dropped always terminates: the disconnection clears the running flag,
\* the loop ends with that iteration, and the thread drains, finalizes once
\* and sends Finished
C26_DisconnectionEndsMixer ==
    /\ [](ClearedFlagEndsLoop)
    /\ SendersDropped(1) ~> EndedInOrder(1)

\* C26 witness: the mixer has ended on the disconnection and its Finished is
\* queued while the caller is still inside stop_record; it had taken
\* microphone chunks and no system chunk
C26_Witness ==
    /\ callerPc = "stop_recv"
    /\ SendersDropped(1)
    /\ EndedInOrder(1)
    /\ FinishedSent(1)
    /\ sessions[1].micCount >= 1
    /\ sessions[1].sysCount = 0

(* ------------------------------- C27 ------------------------------------ *)

\* C27: on the ScreenCaptureKit path every stop_record that has returned,
\* returned Ok(()): when no session was started, when the completion signal
\* did not arrive within the timeout, and when a sink write failed.  No
\* failure of the session shows in stop_record's result.
C27_MacStopAlwaysOk ==
    backend = "mac" =>
      \A i \in 1..Len(hist) : hist[i].op = "stop" => hist[i].res = "Ok"

\* A first stop with no session, then a session whose sink write failed and
\* whose Finished was left unread by the second stop (its wait timed out)
C27_Witness ==
    /\ backend = "mac"
    /\ callerPc = "idle"
    /\ hist = <<StopOk, StartOk, StopOk>>
    /\ Sess = {1}
    /\ sessions[1].writeErrs > 0
    /\ events # <<>>

(* ------------------------------- C28 ------------------------------------ *)

\* the position of the first Stop among the messages sent into the wav
\* channel, one past the end when none was sent
FirstStop(c) ==
    LET stops == {i \in 1..Len(c.sent) : c.sent[i].kind = "stop"}
    IN  IF stops = {} THEN Len(c.sent) + 1
        ELSE CHOOSE i \in stops : \A j \in stops : i <= j

\* the samples of the chunks sent before the first Stop, in send order
SentBeforeStop(c) ==
    Flatten([i \in 1..(FirstStop(c) - 1) |-> c.sent[i].data])

IsPrefix(a, b) == Len(a) <= Len(b) /\ a = SubSeq(b, 1, Len(a))

\* the waits of stop_record on the event channel that have returned
WaitsReturned ==
    Cardinality({i \in 1..Len(hist) : hist[i].op = "stop"})
      + (IF callerPc = "stop_join" THEN 1 ELSE 0)

\* the completion events sent so far: those queued and those taken
FinishedEverSent == Len(events) + WaitsReturned

\* C28: on the cpal path the writer thread passes every sample it received
\* to the sink in send order (a write the sink refuses is discarded and the
\* thread goes on); once it has left its loop what it received is exactly
\* what was sent before the first Stop, so nothing sent after Stop is
\* written; Finished has been sent once when the thread has passed its send,
\* which it reaches only by receiving Stop, and never before; and a wait of
\* stop_record has returned only if a writer thread sent Finished.
C28_CpalWriterOrder ==
    backend = "cpal" =>
      /\ IsPrefix(cpal.out, CpalReceived(cpal))
      /\ Len(cpal.out) + cpal.writeErrs = Len(CpalReceived(cpal))
      /\ cpal.sinkOk => cpal.out = CpalReceived(cpal)
      /\ cpal.pc \in {"send", "end", "done"} =>
           /\ FirstStop(cpal) = Len(cpal.sent) - Len(cpal.wavCh)
           /\ CpalReceived(cpal) = SentBeforeStop(cpal)
      /\ cpal.pc \in {"none", "recv"} =>
           FirstStop(cpal) > Len(cpal.sent) - Len(cpal.wavCh)
      /\ FinishedEverSent = (IF cpal.pc \in {"end", "done"} THEN 1 ELSE 0)
      /\ WaitsReturned > 0 => cpal.pc \in {"end", "done"}

\* a session of two different chunks, both in the sink in send order, whose
\* stop_record has returned after the thread sent Finished and ended
C28_Witness ==
    /\ backend = "cpal"
    /\ hist = <<StartOk, StopOk>>
    /\ cpal.pc = "done"
    /\ Len(cpal.sent) = 3
    /\ cpal.sent[1].data # <<>>
    /\ cpal.sent[2].data # <<>>
    /\ cpal.sent[1].data # cpal.sent[2].data
    /\ cpal.sent[3] = StopMsg
    /\ cpal.out = cpal.sent[1].data \o cpal.sent[2].data
    /\ events = <<>>

====
